---- MODULE Spec2Model ----
(***************************************************************************)
(* A model of the weather service core:                                    *)
(*   - weather_service/core/retry.py        (RetryConfig, with_retry)      *)
(*   - weather_service/core/geo/open_weather_geo_provider.py               *)
(*   - weather_service/core/weather/service.py (WeatherService)            *)
(*   - weather_service/core/weather/providers/openweathermap.py            *)
(*                                                                         *)
(* Three specifications share the variables:                               *)
(*   SpecRetry  one call of a function decorated by with_retry             *)
(*   SpecGeo    one call of OpenWeatherGeoProvider.resolve_locations       *)
(*   Spec       one call of WeatherService.get_weather_by_city             *)
(* Floats (delays, coordinates) are modelled by integers.                  *)
(***************************************************************************)
EXTENDS Integers, Sequences, FiniteSets, TLC

(***************************************************************************)
(* Bounds                                                                  *)
(***************************************************************************)
\* largest max_retries a RetryConfig of the model is built with
MaxRetries == 2

\* most candidates the geocoder answers with in SpecGeo (the request asks for
\* at most 5)
MaxCandidates == 2

\* most candidates the geocoder answers with in Spec, hence the most locations
\* one get_weather_by_city request fetches and persists
MaxLocations == 2

\* the clock read by _format_file_name and Event(timestamp=...) counts whole
\* seconds from 0 to MaxClock
MaxClock == 1

\* requests sent to the forecast endpoint, one after the other
MaxRequests == 2

\* attempt numbers 0 .. MaxAttempts - 1 whose delay is computed
MaxAttempts == 5

(***************************************************************************)
(* retry.py : errors                                                       *)
(***************************************************************************)
NoneValue == [type |-> "None", status_code |-> 0]

\* HTTP status codes the wrapped operation may answer with: 500 is in the
\* default retriable set, 400 and 418 are not.
StatusCodes == {400, 418, 500}

HTTPStatusError(s) == [type |-> "HTTPStatusError", status_code |-> s]

TimeoutException == [type |-> "TimeoutException", status_code |-> 0]

ConnectError == [type |-> "ConnectError", status_code |-> 0]

NetworkError == [type |-> "NetworkError", status_code |-> 0]

ValueError == [type |-> "ValueError", status_code |-> 0]

\* what the wrapped operation can raise
Errors ==
  {HTTPStatusError(s) : s \in StatusCodes}
    \cup {TimeoutException, ConnectError, NetworkError, ValueError}

Success == [type |-> "success", status_code |-> 0]

\* ThirdPartyProviderUnavailable(provider_name, original_error): status 503,
\* message built from the provider name and str(original_error)
ThirdPartyProviderUnavailable(name, original_error) ==
  [type |-> "ThirdPartyProviderUnavailable", status_code |-> 503,
   provider_name |-> name, original_error |-> original_error]

(***************************************************************************)
(* retry.py : RetryConfig                                                  *)
(***************************************************************************)
DefaultRetriableStatusCodes == {500, 502, 503, 504, 429, 408}

\* the constructor argument retriable_status_codes=None
NoCodes == {-1}

\* `retriable_status_codes or {...}`: None and the empty set are both falsy
RetryConfig(max_retries, base_delay, max_delay, backoff_factor, codes) ==
  [max_retries |-> max_retries,
   base_delay |-> base_delay,
   max_delay |-> max_delay,
   backoff_factor |-> backoff_factor,
   retriable_status_codes |->
     IF codes = NoCodes \/ codes = {} THEN DefaultRetriableStatusCodes
     ELSE codes]

\* the retriable_status_codes arguments the model constructs configs with
CodeArgs == {NoCodes, {}, {418}, {500, 503}}

\* (base_delay, max_delay, backoff_factor) triples of the model
DelayArgs == {<<1, 10, 2>>, <<1, 3, 2>>, <<2, 3, 2>>}

Configs ==
  {RetryConfig(k, d[1], d[2], d[3], c) :
     k \in 0..MaxRetries, d \in DelayArgs, c \in CodeArgs}

ProviderNames == {"Unknown Provider", "OpenWeatherAPI"}

(***************************************************************************)
(* retry.py : is_retriable_error, calculate_delay                          *)
(***************************************************************************)
is_retriable_error(error) ==
  IF error.type = "HTTPStatusError"
  THEN error.status_code \in {500, 502, 503, 504, 429, 408}
  ELSE IF error.type = "TimeoutException" THEN TRUE
  ELSE IF error.type = "ConnectError" THEN TRUE
  ELSE IF error.type = "NetworkError" THEN TRUE
  ELSE FALSE

RECURSIVE Pow(_, _)
Pow(b, n) == IF n = 0 THEN 1 ELSE b * Pow(b, n - 1)

Min(a, b) == IF a <= b THEN a ELSE b

calculate_delay_Uncapped(a, c) ==
  c.base_delay * Pow(c.backoff_factor, a)

\* lines 62-65: min(base_delay * backoff_factor ** attempt, max_delay)
calculate_delay(a, c) ==
  Min(c.base_delay * Pow(c.backoff_factor, a), c.max_delay)

\* line 94: `if attempt < config.max_retries`
MayRetry_OffByOne(a, c) == a + 1 < c.max_retries

MayRetry(a, c) == a < c.max_retries

(***************************************************************************)
(* Strings: a str is a sequence of one-character strings                   *)
(***************************************************************************)
\* the value None where a str is expected
None == <<"<None>">>

\* str.lower() on one character; "ß".lower() is "ß"
LowerChar(ch) ==
  CASE ch = "A" -> "a"
    [] ch = "B" -> "b"
    [] ch = "G" -> "g"
    [] ch = "S" -> "s"
    [] ch = "X" -> "x"
    [] OTHER -> ch

\* str.casefold() on one character: the full case folding takes "ß" to "ss"
CasefoldChar(ch) ==
  CASE ch = "ß" -> <<"s", "s">>
    [] OTHER -> <<LowerChar(ch)>>

lower(str) == [i \in 1..Len(str) |-> LowerChar(str[i])]

RECURSIVE casefold(_)
casefold(str) ==
  IF str = <<>> THEN <<>> ELSE CasefoldChar(Head(str)) \o casefold(Tail(str))

RECURSIVE lstrip(_)
lstrip(str) ==
  IF str # <<>> /\ Head(str) = " " THEN lstrip(Tail(str)) ELSE str

RECURSIVE rstrip(_)
rstrip(str) ==
  IF str # <<>> /\ str[Len(str)] = " "
  THEN rstrip(SubSeq(str, 1, Len(str) - 1))
  ELSE str

strip(str) == rstrip(lstrip(str))

\* truthiness of an optional str: None and "" are falsy
Truthy(str) == str # None /\ str # <<>>

(***************************************************************************)
(* geo/base.py, geo/open_weather_geo_provider.py                           *)
(***************************************************************************)
Location(name, country, state, latitude, longitude) ==
  [name |-> name, country |-> country, state |-> state,
   latitude |-> latitude, longitude |-> longitude]

\* OpenWeatherGeoClient._format_query
format_query(city, country_code, state) ==
  IF Truthy(state) /\ Truthy(country_code) THEN <<city, state, country_code>>
  ELSE IF Truthy(country_code) THEN <<city, country_code>>
  ELSE <<city>>

RECURSIVE SelectSeqBy(_, _)
\* [x for x in seq if keep[x]] ; keep is the set of elements to retain
SelectSeqBy(seq, keep) ==
  IF seq = <<>> THEN <<>>
  ELSE IF Head(seq) \in keep
       THEN <<Head(seq)>> \o SelectSeqBy(Tail(seq), keep)
       ELSE SelectSeqBy(Tail(seq), keep)

Range(seq) == {seq[i] : i \in 1..Len(seq)}

\* line 76: location.name.lower() == city.lower()
NameMatches(location, city) == lower(location.name) = lower(city)

StateMatches_CaseSensitive(location, state) ==
  \/ location.state = None /\ state = None
  \/ (IF Truthy(location.state) THEN location.state ELSE <<>>)
       = (IF Truthy(state) THEN state ELSE <<>>)

\* lines 85-88: location.state is None and state is None
\*              or (location.state.casefold() if location.state else "")
\*                 == (state.casefold() if state else "")
StateMatches(location, state) ==
  \/ location.state = None /\ state = None
  \/ (IF Truthy(location.state) THEN casefold(location.state) ELSE <<>>)
       = (IF Truthy(state) THEN casefold(state) ELSE <<>>)

\* lines 75-77: the exact-name filter
exact_name_filter(locations, city) ==
  SelectSeqBy(locations, {l \in Range(locations) : NameMatches(l, city)})

\* lines 81-89: the state disambiguation, applied to the name-filtered list
state_filter(locations, state) ==
  IF Len(locations) > 1
  THEN SelectSeqBy(locations, {l \in Range(locations) : StateMatches(l, state)})
  ELSE locations

\* OpenWeatherGeoProvider.resolve_locations, after the client has answered
filter_locations(locations, city, state) ==
  state_filter(exact_name_filter(locations, city), state)

(***************************************************************************)
(* State                                                                   *)
(***************************************************************************)
VARIABLES
  \* ---- with_retry.wrapper ----
  config,         \* the RetryConfig the decorator was built with
  provider_name,  \* the provider_name the decorator was built with
  script,         \* behaviour of the wrapped operation: outcome of invocation i
  rpc,            \* position of the wrapper: "off", "call", "sleep", "returned", "raised"
  attempt,        \* the loop variable of `for attempt in range(max_retries + 1)`
  call_count,     \* invocations of the wrapped operation so far
  last_error,     \* the wrapper's last_error
  sleeps,         \* the delays of the asyncio.sleep calls made so far, in order
  result,         \* the value returned or the exception raised by the wrapper
  \* ---- RetryConfig.__init__, calculate_delay ----
  config_args,    \* the arguments RetryConfig is constructed with
  delays,         \* calculate_delay(0, config), calculate_delay(1, config), ...
  \* ---- OpenWeatherApiClient ----
  endpoint,       \* the client method that was called
  retry_config,   \* the client's self.retry_config
  client_result,  \* the value returned or the exception raised by the method
  \* ---- OpenWeatherGeoProvider.resolve_locations ----
  geo_args,       \* [city, country_code, state] the resolver was called with
  geo_answer,     \* what the geocoding API answers the GET with
  gpc,            \* position of the resolver: "off", "call", "get", "returned", "raised"
  geo_gets,       \* the queries of the GET requests sent to the geocoding API
  geo_result,     \* the list returned or the exception raised by the resolver
  \* ---- WeatherService.get_weather_by_city, get_weather_forecast_by_city ----
  req,            \* [city_name, country_code, state] the service was called with
  factory,        \* which WeatherProviderFactory the service was built with
  spc,            \* position of the service method: "off", "start", "resolving",
                  \* "fetching", "forecasting", "gather", "returned", "raised"
  locations,      \* the list resolve_locations returned
  fetch,          \* per location: [st, err], st in "idle", "inflight", "done", "failed"
  weather_infos_by_location,  \* the list of (location, weather_info) pairs;
                  \* weather_forecast_by_location in the forecast method
  tasks,          \* per pair, the _store_weather_info task: [st, key, url, err]
  gather_exc,     \* the first exception set on the gather future
  svc_result,     \* the list returned or the exception raised by the service
  now,            \* the clock, in seconds
  objects,        \* data store: the set of [key, data] objects it holds
  object_puts,    \* data store: number of completed put_object calls
  events,         \* event store: the events written, in order
  \* ---- api/weather.py: get_weather, get_weather_forecast_by_city ----
  method,         \* the service method the request handler calls
  requests,       \* requests received so far, the current one included
  response        \* the HTTP response of the current request: [status_code, body]

cfgVars == <<config_args, delays>>

clientVars == <<endpoint, retry_config, client_result>>

retryVars ==
  <<config, provider_name, script, rpc, attempt, call_count, last_error,
    sleeps, result, cfgVars, clientVars>>

geoVars == <<geo_args, geo_answer, gpc, geo_gets, geo_result>>

apiVars == <<method, requests, response>>

svcVars ==
  <<req, factory, spc, locations, fetch, weather_infos_by_location, tasks,
    gather_exc, svc_result, now, objects, object_puts, events, apiVars>>

vars == <<retryVars, geoVars, svcVars>>

(***************************************************************************)
(* third_party/openweather/client.py : OpenWeatherApiClient._make_request  *)
(***************************************************************************)
PROVIDER_NAME == "OpenWeatherAPI"

\* ThirdPartyProviderError(provider_name, message, status_code)
ThirdPartyProviderError(name, message, status) ==
  [type |-> "ThirdPartyProviderError", status_code |-> status,
   provider_name |-> name, message |-> message]

\* the provider answers a GET with a response of status s, whose body is JSON
\* of the documented shape
Response(s) == [type |-> "Response", status_code |-> s, body |-> "json"]

\* a 200 response whose body is not JSON
MalformedResponse ==
  [type |-> "Response", status_code |-> 200, body |-> "malformed"]

\* a 200 response whose body is JSON of another shape than the models expect
UnexpectedResponse ==
  [type |-> "Response", status_code |-> 200, body |-> "unexpected"]

\* response.json() raises it for a body that is not JSON
JSONDecodeError == [type |-> "JSONDecodeError", status_code |-> 0]

KeyError == [type |-> "KeyError", status_code |-> 0]

TypeError == [type |-> "TypeError", status_code |-> 0]

\* what from_dict raises for JSON of an unexpected shape
ParseErrors == {KeyError, TypeError}

InvalidProviderResponse ==
  [type |-> "InvalidProviderResponse", status_code |-> 502]

\* what a GET of _make_request ends with: a response, or an error client.get
\* raises
AnswerCodes == {200, 401, 404, 429, 500}

Answers ==
  {Response(s) : s \in AnswerCodes}
    \cup {ConnectError, MalformedResponse, UnexpectedResponse}

\* the client methods built on _make_request
Endpoints ==
  {"get_current_weather_by_coords", "get_weather_forecast", "get_geo_locations"}

\* RetryConfig(): the config of a with_retry that is given none
DefaultRetryConfig == RetryConfig(3, 1, 10, 2, NoCodes)

make_request_No429(answer) ==
  IF answer.type # "Response" THEN answer
  ELSE IF answer.status_code = 401
       THEN ThirdPartyProviderError(PROVIDER_NAME, "Invalid API key", 401)
  ELSE IF answer.status_code = 404
       THEN ThirdPartyProviderError(PROVIDER_NAME, "Location not found", 404)
  ELSE IF answer.status_code >= 400 THEN HTTPStatusError(answer.status_code)
  ELSE IF answer.body = "malformed" THEN JSONDecodeError
  ELSE Success

\* the body of _make_request, lines 46-64, from the answer to its GET to the
\* outcome of the invocation: an error of client.get propagates; 401, 404 and
\* 429 raise ThirdPartyProviderError; raise_for_status raises for the other
\* error statuses; otherwise response.json() returns the decoded body or
\* raises for a body that is not JSON
make_request(answer) ==
  IF answer.type # "Response" THEN answer
  ELSE IF answer.status_code = 401
       THEN ThirdPartyProviderError(PROVIDER_NAME, "Invalid API key", 401)
  ELSE IF answer.status_code = 404
       THEN ThirdPartyProviderError(PROVIDER_NAME, "Location not found", 404)
  ELSE IF answer.status_code = 429
       THEN ThirdPartyProviderError(PROVIDER_NAME, "API rate limit exceeded", 429)
  ELSE IF answer.status_code >= 400 THEN HTTPStatusError(answer.status_code)
  ELSE IF answer.body = "malformed" THEN JSONDecodeError
  ELSE Success

(***************************************************************************)
(* with_retry.wrapper                                                      *)
(***************************************************************************)
\* outcome of the i-th invocation (1-based) of the wrapped operation; an
\* operation invoked more often than the script is long succeeds. The script
\* holds the outcomes themselves, or, when the wrapped operation is
\* _make_request, the answers to its GETs
FuncOutcome(i) ==
  IF i <= Len(script) THEN make_request(script[i]) ELSE Success

\* the value a successful invocation i returns
SuccessValue(i) == [type |-> "success", status_code |-> 0, value |-> i]

Outcomes == Errors \cup {Success}

\* the resolver is not part of the run
\* no RetryConfig is being constructed
NoArgs ==
  [max_retries |-> 0, base_delay |-> 1, max_delay |-> 10,
   backoff_factor |-> 2, codes |-> NoCodes]

ConfigOff ==
  /\ config_args = NoArgs
  /\ delays = <<>>

\* no client method is part of the run
ClientOff ==
  /\ endpoint = "off"
  /\ retry_config = DefaultRetryConfig
  /\ client_result = NoneValue

GeoOff ==
  /\ geo_args = [city |-> <<>>, country_code |-> None, state |-> None]
  /\ geo_answer = [status_code |-> 200, body |-> <<>>]
  /\ gpc = "off"
  /\ geo_gets = <<>>
  /\ geo_result = <<>>

\* no response has been sent for the current request
NoResponse == [status_code |-> 0, body |-> <<>>]

\* the service is not part of the run
ServiceOff ==
  /\ req = [city_name |-> <<>>, country_code |-> None, state |-> None]
  /\ factory = "OpenWeatherMapProviderFactory"
  /\ spc = "off"
  /\ locations = <<>>
  /\ fetch = <<>>
  /\ weather_infos_by_location = <<>>
  /\ tasks = <<>>
  /\ gather_exc = NoneValue
  /\ svc_result = <<>>
  /\ now = 0
  /\ objects = {}
  /\ object_puts = 0
  /\ events = <<>>
  /\ method = "get_weather_by_city"
  /\ requests = 0
  /\ response = NoResponse

InitRetry ==
  /\ GeoOff
  /\ ServiceOff
  /\ ConfigOff
  /\ ClientOff
  /\ config \in Configs
  /\ provider_name \in ProviderNames
  /\ script \in [1..(config.max_retries + 1) -> Outcomes]
  /\ rpc = "call"
  /\ attempt = 0
  /\ call_count = 0
  /\ last_error = NoneValue
  /\ sleeps = <<>>
  /\ result = NoneValue

\* OpenWeatherApiClient.__init__ line 36: retry_config or RetryConfig(), for
\* no argument and for the configs a client is built with
ClientRetryConfigs ==
  {DefaultRetryConfig}
    \cup {RetryConfig(k, 1, 10, 2, NoCodes) : k \in 0..MaxRetries}

\* a method of a client built with retry_config is called; _make_request runs
\* under @with_retry(provider_name=PROVIDER_NAME), which was applied when the
\* class was defined: it is passed no config and builds RetryConfig()
InitClient ==
  /\ GeoOff
  /\ ServiceOff
  /\ ConfigOff
  /\ endpoint \in Endpoints
  /\ retry_config \in ClientRetryConfigs
  /\ client_result = NoneValue
  /\ config = DefaultRetryConfig
  /\ provider_name = PROVIDER_NAME
  /\ script \in [1..(config.max_retries + 1) -> Answers]
  /\ rpc = "call"
  /\ attempt = 0
  /\ call_count = 0
  /\ last_error = NoneValue
  /\ sleeps = <<>>
  /\ result = NoneValue

\* line 84: the operation is awaited and returns
CallReturns ==
  /\ rpc = "call"
  /\ attempt \in 0..config.max_retries
  /\ FuncOutcome(call_count + 1) = Success
  /\ call_count' = call_count + 1
  /\ result' = SuccessValue(call_count + 1)
  /\ rpc' = "returned"
  /\ UNCHANGED <<config, provider_name, script, attempt, last_error, sleeps>>
  /\ UNCHANGED <<geoVars, svcVars, cfgVars, clientVars>>

CallRaisesFatal_Wrapped ==
  /\ rpc = "call"
  /\ attempt \in 0..config.max_retries
  /\ LET e == FuncOutcome(call_count + 1) IN
       /\ e # Success
       /\ ~is_retriable_error(e)
       /\ last_error' = e
       /\ result' = ThirdPartyProviderUnavailable(provider_name, e)
  /\ call_count' = call_count + 1
  /\ rpc' = "raised"
  /\ UNCHANGED <<config, provider_name, script, attempt, sleeps>>
  /\ UNCHANGED <<geoVars, svcVars, cfgVars, clientVars>>

\* lines 85-92: the operation raises an error that is not retriable
CallRaisesFatal ==
  /\ rpc = "call"
  /\ attempt \in 0..config.max_retries
  /\ LET e == FuncOutcome(call_count + 1) IN
       /\ e # Success
       /\ ~is_retriable_error(e)
       /\ last_error' = e
       /\ result' = e
  /\ call_count' = call_count + 1
  /\ rpc' = "raised"
  /\ UNCHANGED <<config, provider_name, script, attempt, sleeps>>
  /\ UNCHANGED <<geoVars, svcVars, cfgVars, clientVars>>

\* lines 94-100: a retriable error before the last attempt: sleep, then retry
CallRaisesRetriable_DelayOfNext ==
  /\ rpc = "call"
  /\ attempt \in 0..config.max_retries
  /\ LET e == FuncOutcome(call_count + 1) IN
       /\ e # Success
       /\ is_retriable_error(e)
       /\ last_error' = e
  /\ MayRetry(attempt, config)
  /\ call_count' = call_count + 1
  /\ sleeps' = Append(sleeps, calculate_delay(attempt + 1, config))
  /\ rpc' = "sleep"
  /\ UNCHANGED <<config, provider_name, script, attempt, result>>
  /\ UNCHANGED <<geoVars, svcVars, cfgVars, clientVars>>

\* lines 85-106: the operation raises a retriable error before the last
\* attempt; the wrapper computes the delay of this attempt and sleeps
CallRaisesRetriable ==
  /\ rpc = "call"
  /\ attempt \in 0..config.max_retries
  /\ LET e == FuncOutcome(call_count + 1) IN
       /\ e # Success
       /\ is_retriable_error(e)
       /\ last_error' = e
  /\ MayRetry(attempt, config)
  /\ call_count' = call_count + 1
  /\ sleeps' = Append(sleeps, calculate_delay(attempt, config))
  /\ rpc' = "sleep"
  /\ UNCHANGED <<config, provider_name, script, attempt, result>>
  /\ UNCHANGED <<geoVars, svcVars, cfgVars, clientVars>>

CallRaisesExhausted_FirstError ==
  /\ rpc = "call"
  /\ attempt \in 0..config.max_retries
  /\ LET e == FuncOutcome(call_count + 1) IN
       /\ e # Success
       /\ is_retriable_error(e)
       /\ last_error' = e
       /\ result' = ThirdPartyProviderUnavailable(provider_name, FuncOutcome(1))
  /\ ~MayRetry(attempt, config)
  /\ call_count' = call_count + 1
  /\ rpc' = "raised"
  /\ UNCHANGED <<config, provider_name, script, attempt, sleeps>>
  /\ UNCHANGED <<geoVars, svcVars, cfgVars, clientVars>>

\* lines 101-106: a retriable error on the last attempt
CallRaisesExhausted ==
  /\ rpc = "call"
  /\ attempt \in 0..config.max_retries
  /\ LET e == FuncOutcome(call_count + 1) IN
       /\ e # Success
       /\ is_retriable_error(e)
       /\ last_error' = e
       /\ result' = ThirdPartyProviderUnavailable(provider_name, e)
  /\ ~MayRetry(attempt, config)
  /\ call_count' = call_count + 1
  /\ rpc' = "raised"
  /\ UNCHANGED <<config, provider_name, script, attempt, sleeps>>
  /\ UNCHANGED <<geoVars, svcVars, cfgVars, clientVars>>

SleepDone_Restarts ==
  /\ rpc = "sleep"
  /\ attempt' = 0
  /\ call_count' = 0
  /\ sleeps' = <<>>
  /\ rpc' = "call"
  /\ UNCHANGED <<config, provider_name, script, last_error, result>>
  /\ UNCHANGED <<geoVars, svcVars, cfgVars, clientVars>>

\* asyncio.sleep(delay) completes and the for loop takes its next value
SleepDone ==
  /\ rpc = "sleep"
  /\ attempt' = attempt + 1
  /\ rpc' = "call"
  /\ UNCHANGED <<config, provider_name, script, call_count, last_error,
                 sleeps, result>>
  /\ UNCHANGED <<geoVars, svcVars, cfgVars, clientVars>>

NextRetry ==
  \/ CallReturns
  \/ CallRaisesFatal
  \/ CallRaisesRetriable
  \/ CallRaisesExhausted
  \/ SleepDone

SpecRetry == InitRetry /\ [][NextRetry]_vars

\* every invocation of the wrapped operation terminates and every
\* asyncio.sleep completes: the event loop resumes the wrapper at each await
SpecRetryFair == SpecRetry /\ WF_vars(NextRetry)

(***************************************************************************)
(* retry.py : RetryConfig.__init__ and calculate_delay on their own        *)
(***************************************************************************)
\* the constructor arguments of the model: base_delay >= 0, backoff_factor >= 1,
\* max_delay > 0, and the retriable_status_codes arguments of CodeArgs
ConfigArgs ==
  [max_retries : {3}, base_delay : 0..2, max_delay : {1, 3, 10},
   backoff_factor : 1..3, codes : CodeArgs]

InitConfig ==
  /\ GeoOff
  /\ ServiceOff
  /\ ClientOff
  /\ config_args \in ConfigArgs
  /\ delays = <<>>
  /\ config = NoneValue
  /\ provider_name = "Unknown Provider"
  /\ script = <<>>
  /\ rpc = "off"
  /\ attempt = 0
  /\ call_count = 0
  /\ last_error = NoneValue
  /\ sleeps = <<>>
  /\ result = NoneValue

\* RetryConfig.__init__, lines 20-39
Construct ==
  /\ config = NoneValue
  /\ config' =
       RetryConfig(config_args.max_retries, config_args.base_delay,
                   config_args.max_delay, config_args.backoff_factor,
                   config_args.codes)
  /\ UNCHANGED <<provider_name, script, rpc, attempt, call_count, last_error,
                 sleeps, result, cfgVars, clientVars>>
  /\ UNCHANGED <<geoVars, svcVars>>

\* calculate_delay(attempt, config) for the next attempt number
ComputeDelay ==
  /\ config # NoneValue
  /\ Len(delays) < MaxAttempts
  /\ delays' = Append(delays, calculate_delay(Len(delays), config))
  /\ UNCHANGED <<config, provider_name, script, rpc, attempt, call_count,
                 last_error, sleeps, result, config_args, clientVars>>
  /\ UNCHANGED <<geoVars, svcVars>>

NextConfig ==
  \/ Construct
  \/ ComputeDelay

SpecConfig == InitConfig /\ [][NextConfig]_vars

\* the value a client method returns: the models built from the JSON body
Parsed(method_name, value) ==
  [type |-> "parsed", status_code |-> 0, endpoint |-> method_name,
   value |-> value]

\* client.py lines 79, 95, 110: _make_request returned and from_dict builds
\* the response models
ClientReturns ==
  /\ rpc = "returned"
  /\ client_result = NoneValue
  /\ script[call_count].body = "json"
  /\ client_result' = Parsed(endpoint, result)
  /\ UNCHANGED <<config, provider_name, script, rpc, attempt, call_count,
                 last_error, sleeps, result, endpoint, retry_config>>
  /\ UNCHANGED <<geoVars, svcVars, cfgVars>>

\* lines 79, 95, 110: from_dict raises for JSON of an unexpected shape; the
\* method does not catch it
ClientParseRaises ==
  /\ rpc = "returned"
  /\ client_result = NoneValue
  /\ script[call_count].body = "unexpected"
  /\ client_result' \in ParseErrors
  /\ UNCHANGED <<config, provider_name, script, rpc, attempt, call_count,
                 last_error, sleeps, result, endpoint, retry_config>>
  /\ UNCHANGED <<geoVars, svcVars, cfgVars>>

\* lines 70, 85, 103: _make_request raised; the method does not catch it
ClientRaises ==
  /\ rpc = "raised"
  /\ client_result = NoneValue
  /\ client_result' = result
  /\ UNCHANGED <<config, provider_name, script, rpc, attempt, call_count,
                 last_error, sleeps, result, endpoint, retry_config>>
  /\ UNCHANGED <<geoVars, svcVars, cfgVars>>

NextClient ==
  \/ CallReturns
  \/ CallRaisesFatal
  \/ CallRaisesRetriable
  \/ CallRaisesExhausted
  \/ SleepDone
  \/ ClientReturns
  \/ ClientParseRaises
  \/ ClientRaises

SpecClient == InitClient /\ [][NextClient]_vars

(***************************************************************************)
(* OpenWeatherGeoProvider.resolve_locations                                *)
(***************************************************************************)
\* the wrapper is not part of the run
RetryOff ==
  /\ config = RetryConfig(0, 1, 10, 2, NoCodes)
  /\ provider_name = "Unknown Provider"
  /\ script = <<>>
  /\ rpc = "off"
  /\ attempt = 0
  /\ call_count = 0
  /\ last_error = NoneValue
  /\ sleeps = <<>>
  /\ result = NoneValue
  /\ ConfigOff
  /\ ClientOff

\* names, states and arguments of SpecGeo
GeoNames == {<<"a">>, <<"A">>, <<"s", "s">>, <<"ß">>}

GeoStates == {None, <<"x">>, <<"X">>, <<"y">>}

GeoStateArgs == {None, <<>>, <<"x">>, <<"y">>}

GeoCountryArgs == {None, <<"g", "b">>}

GeoCandidates ==
  {Location(n, <<"G", "B">>, st, 1, 1) : n \in GeoNames, st \in GeoStates}

SeqsUpTo(S, n) == UNION {[1..k -> S] : k \in 0..n}

\* error answers of the geocoding API: an error status, or no answer at all
GeoErrorAnswers ==
  {[status_code |-> 500, body |-> <<>>],
   [status_code |-> 401, body |-> <<>>],
   [status_code |-> 0, body |-> <<>>]}

InitGeo ==
  /\ RetryOff
  /\ ServiceOff
  /\ geo_args \in
       [city : GeoNames, country_code : GeoCountryArgs, state : GeoStateArgs]
  /\ geo_answer \in
       [status_code : {200}, body : SeqsUpTo(GeoCandidates, MaxCandidates)]
         \cup GeoErrorAnswers
  /\ gpc = "call"
  /\ geo_gets = <<>>
  /\ geo_result = <<>>

\* OpenWeatherGeoClient.resolve_locations lines 34-43: the GET is sent
GeoGet ==
  /\ gpc = "call"
  /\ geo_gets' =
       Append(geo_gets,
              [q |-> format_query(geo_args.city, geo_args.country_code,
                                  geo_args.state),
               limit |-> 5])
  /\ gpc' = "get"
  /\ UNCHANGED <<geo_args, geo_answer, geo_result>>
  /\ UNCHANGED <<retryVars, svcVars>>

\* lines 44-58 of the client, then lines 73-91 of the provider
GeoAnswerOk ==
  /\ gpc = "get"
  /\ geo_answer.status_code = 200
  /\ geo_result' =
       filter_locations(geo_answer.body, geo_args.city, geo_args.state)
  /\ gpc' = "returned"
  /\ UNCHANGED <<geo_args, geo_answer, geo_gets>>
  /\ UNCHANGED <<retryVars, svcVars>>

\* client.get raises a network error, or raise_for_status (line 44) raises the
\* HTTPStatusError: neither the client nor the provider catches it
GeoAnswerError ==
  /\ gpc = "get"
  /\ geo_answer.status_code # 200
  /\ geo_result' =
       IF geo_answer.status_code = 0 THEN <<ConnectError>>
       ELSE <<HTTPStatusError(geo_answer.status_code)>>
  /\ gpc' = "raised"
  /\ UNCHANGED <<geo_args, geo_answer, geo_gets>>
  /\ UNCHANGED <<retryVars, svcVars>>

NextGeo ==
  \/ GeoGet
  \/ GeoAnswerOk
  \/ GeoAnswerError

SpecGeo == InitGeo /\ [][NextGeo]_vars

(***************************************************************************)
(* WeatherService.get_weather_by_city                                      *)
(***************************************************************************)
RuntimeError == [type |-> "RuntimeError", status_code |-> 0]

\* the error a failing put_object / put_event call of task i raises
DataStoreError(i) == [type |-> "DataStoreError", status_code |-> 0, task |-> i]

EventStoreError(i) == [type |-> "EventStoreError", status_code |-> 0, task |-> i]

\* the WeatherProviderFactory implementations the service is built with: the
\* repository's OpenWeatherMapProviderFactory, and any other implementation of
\* the abstract interface whose providers send their request
Factories == {"OpenWeatherMapProviderFactory", "WeatherProviderFactory"}

AsyncClient == [type |-> "AsyncClient", status_code |-> 0]

\* the _client of the provider that factory.provider() returns.
\* OpenWeatherMapProvider.__init__ sets self._client = None; only __aenter__,
\* which the service never calls, creates the httpx.AsyncClient
ProviderClient(f) ==
  IF f = "OpenWeatherMapProviderFactory" THEN NoneValue ELSE AsyncClient

\* OpenWeatherMapProvider.httpx_client
httpx_client(client) == IF client = NoneValue THEN RuntimeError ELSE client

\* an Optional[float]: <<>> is None, <<v>> is the value v
NoFloat == <<>>

\* the feels_like of the weather API's answer for the coordinates of a
\* location: absent, zero, or another value
FeelsLikeAt(location) ==
  IF location.longitude = 2 THEN NoFloat
  ELSE IF location.latitude = 2 THEN <<10 * location.latitude>>
  ELSE <<0>>

\* the WeatherData the weather API reports for the coordinates of a location;
\* feels_like=data["main"].get("feels_like") is None when the answer has none
WeatherAt(location) ==
  [temperature |-> 10 * location.latitude + location.longitude,
   feels_like |-> FeelsLikeAt(location)]

\* the errors a weather fetch that was sent can end with
FetchErrors == {HTTPStatusError(500), ConnectError}

\* WeatherService._format_file_name: "{city}_{country}_{state}_{%Y%m%d_%H%M%S}.json"
format_file_name(city_name, country_code, state, clock) ==
  <<city_name, country_code, state, clock>>

\* the url the data store returns for an object name
UrlOf(object_name) == <<"url", object_name>>

Event(timestamp, city, country_code, state, url) ==
  [timestamp |-> timestamp, city |-> city, country_code |-> country_code,
   state |-> state, url |-> url]

NoKey == <<>>

NoEvent == Event(0, <<>>, <<>>, <<>>, NoKey)

NewTask ==
  [st |-> "new", key |-> NoKey, url |-> NoKey, event |-> NoEvent,
   err |-> NoneValue]

\* the service methods a request handler calls
Methods == {"get_weather_by_city", "get_weather_forecast_by_city"}

\* request arguments, candidates and geocoder answers of Spec
CityNames == {<<"a">>, <<" ", "A">>}

StateArgs == {None, <<"X">>}

Candidates ==
  {Location(<<"a">>, <<"G", "B">>, <<"x">>, 1, 1),
   Location(<<"a">>, <<"G", "B">>, <<"x">>, 2, 1),
   Location(<<"A">>, <<"G", "B">>, None, 1, 2),
   Location(<<"b">>, <<"G", "B">>, <<"x">>, 1, 1)}

Init ==
  /\ RetryOff
  /\ geo_args = [city |-> <<>>, country_code |-> None, state |-> None]
  /\ geo_answer \in
       [status_code : {200}, body : SeqsUpTo(Candidates, MaxLocations)]
         \cup {[status_code |-> 500, body |-> <<>>]}
  /\ gpc = "off"
  /\ geo_gets = <<>>
  /\ geo_result = <<>>
  /\ req \in [city_name : CityNames, country_code : {None}, state : StateArgs]
  /\ factory \in Factories
  /\ spc = "start"
  /\ locations = <<>>
  /\ fetch = <<>>
  /\ weather_infos_by_location = <<>>
  /\ tasks = <<>>
  /\ gather_exc = NoneValue
  /\ svc_result = <<>>
  /\ now = 0
  /\ objects = {}
  /\ object_puts = 0
  /\ events = <<>>
  /\ method \in Methods
  /\ requests = 1
  /\ response = NoResponse

\* lines 41-47: the arguments are normalised and the resolver is called
ServiceStart ==
  /\ spc = "start"
  /\ method = "get_weather_by_city"
  /\ geo_args' =
       [city |-> strip(lower(req.city_name)),
        country_code |->
          IF Truthy(req.country_code) THEN strip(lower(req.country_code))
          ELSE None,
        state |-> IF Truthy(req.state) THEN strip(lower(req.state)) ELSE None]
  /\ gpc' = "call"
  /\ spc' = "resolving"
  /\ UNCHANGED <<geo_answer, geo_gets, geo_result>>
  /\ UNCHANGED <<req, factory, locations, fetch, weather_infos_by_location,
                 tasks, gather_exc, svc_result, now, objects, object_puts,
                 events>>
  /\ UNCHANGED <<retryVars, apiVars>>

\* lines 45-50: the resolver returned
ServiceResolved ==
  /\ spc = "resolving"
  /\ method = "get_weather_by_city"
  /\ gpc = "returned"
  /\ locations' = geo_result
  /\ IF Len(geo_result) = 0
     THEN /\ spc' = "returned"
          /\ svc_result' = <<>>
          /\ fetch' = fetch
     ELSE /\ spc' = "fetching"
          /\ svc_result' = svc_result
          /\ fetch' = [i \in 1..Len(geo_result) |->
                         [st |-> "idle", err |-> NoneValue]]
  /\ UNCHANGED <<req, factory, weather_infos_by_location, tasks, gather_exc,
                 now, objects, object_puts, events>>
  /\ UNCHANGED <<retryVars, geoVars, apiVars>>

\* line 45: the resolver raised; the service does not catch it
ServiceResolveRaised ==
  /\ spc = "resolving"
  /\ method = "get_weather_by_city"
  /\ gpc = "raised"
  /\ spc' = "raised"
  /\ svc_result' = geo_result
  /\ UNCHANGED <<req, factory, locations, fetch, weather_infos_by_location,
                 tasks, gather_exc, now, objects, object_puts, events>>
  /\ UNCHANGED <<retryVars, geoVars, apiVars>>

\* the location whose weather the loop of lines 53-57 fetches next
NextFetch == Len(weather_infos_by_location) + 1

\* lines 54-56 with an OpenWeatherMapProvider: provider() builds a provider
\* whose _client is None, get_current_weather calls _make_request, and
\* httpx_client() (provider line 47) raises before any request is sent
FetchWithoutClient ==
  /\ spc = "fetching"
  /\ fetch[NextFetch].st = "idle"
  /\ httpx_client(ProviderClient(factory)) = RuntimeError
  /\ fetch' = [fetch EXCEPT ![NextFetch] = [st |-> "failed", err |-> RuntimeError]]
  /\ spc' = "raised"
  /\ svc_result' = <<RuntimeError>>
  /\ UNCHANGED <<req, factory, locations, weather_infos_by_location, tasks,
                 gather_exc, now, objects, object_puts, events>>
  /\ UNCHANGED <<retryVars, geoVars, apiVars>>

\* lines 54-56: the provider sends the request for the next location and the
\* service awaits the answer
FetchStart ==
  /\ spc = "fetching"
  /\ fetch[NextFetch].st = "idle"
  /\ httpx_client(ProviderClient(factory)) # RuntimeError
  /\ fetch' = [fetch EXCEPT ![NextFetch].st = "inflight"]
  /\ UNCHANGED <<req, factory, spc, locations, weather_infos_by_location,
                 tasks, gather_exc, svc_result, now, objects, object_puts,
                 events>>
  /\ UNCHANGED <<retryVars, geoVars, apiVars>>

FetchReturns_StoresInLoop ==
  /\ spc = "fetching"
  /\ fetch[NextFetch].st = "inflight"
  /\ fetch' = [fetch EXCEPT ![NextFetch].st = "done"]
  /\ weather_infos_by_location' =
       Append(weather_infos_by_location,
              <<locations[NextFetch], WeatherAt(locations[NextFetch])>>)
  /\ spc' = IF NextFetch = Len(locations) THEN "gather" ELSE "fetching"
  /\ tasks' = Append(tasks, NewTask)
  /\ UNCHANGED <<req, factory, locations, gather_exc, svc_result, now,
                 objects, object_puts, events>>
  /\ UNCHANGED <<retryVars, geoVars, apiVars>>

\* lines 54-57: the fetch returns and the pair is appended; after the last
\* location, lines 59-64 create one _store_weather_info task per pair
FetchReturns ==
  /\ spc = "fetching"
  /\ fetch[NextFetch].st = "inflight"
  /\ fetch' = [fetch EXCEPT ![NextFetch].st = "done"]
  /\ weather_infos_by_location' =
       Append(weather_infos_by_location,
              <<locations[NextFetch], WeatherAt(locations[NextFetch])>>)
  /\ IF NextFetch = Len(locations)
     THEN /\ spc' = "gather"
          /\ tasks' = [i \in 1..Len(locations) |-> NewTask]
     ELSE /\ spc' = "fetching"
          /\ tasks' = tasks
  /\ UNCHANGED <<req, factory, locations, gather_exc, svc_result, now,
                 objects, object_puts, events>>
  /\ UNCHANGED <<retryVars, geoVars, apiVars>>

\* line 54: the fetch raises; the service does not catch it
FetchRaises ==
  /\ spc = "fetching"
  /\ fetch[NextFetch].st = "inflight"
  /\ \E e \in FetchErrors :
       /\ fetch' = [fetch EXCEPT ![NextFetch] = [st |-> "failed", err |-> e]]
       /\ svc_result' = <<e>>
  /\ spc' = "raised"
  /\ UNCHANGED <<req, factory, locations, weather_infos_by_location, tasks,
                 gather_exc, now, objects, object_puts, events>>
  /\ UNCHANGED <<retryVars, geoVars, apiVars>>

\* some _store_weather_info task has not finished
TasksRunning == \E i \in 1..Len(tasks) : tasks[i].st \notin {"done", "failed"}

\* _store_weather_info lines 102-105: task i formats the object name from the
\* clock and calls put_object
PutObjectCall(i) ==
  /\ tasks[i].st = "new"
  /\ tasks' =
       [tasks EXCEPT ![i].st = "put_object",
                     ![i].key =
                       format_file_name(locations[i].name, locations[i].country,
                                        locations[i].state, now)]
  /\ UNCHANGED <<req, factory, spc, locations, fetch,
                 weather_infos_by_location, gather_exc, svc_result, now,
                 objects, object_puts, events>>
  /\ UNCHANGED <<retryVars, geoVars, apiVars>>

PutObjectReturns_NameRecomputed(i) ==
  /\ tasks[i].st = "put_object"
  /\ objects' =
       {o \in objects : o.key # tasks[i].key}
         \cup {[key |-> tasks[i].key, data |-> weather_infos_by_location[i][2]]}
  /\ object_puts' = object_puts + 1
  /\ tasks' =
       [tasks EXCEPT ![i].st = "put_event",
                     ![i].url = UrlOf(tasks[i].key),
                     ![i].event =
                       Event(now, locations[i].name, locations[i].country,
                             locations[i].state,
                             UrlOf(format_file_name(
                                     locations[i].name, locations[i].country,
                                     locations[i].state, now)))]
  /\ UNCHANGED <<req, factory, spc, locations, fetch,
                 weather_infos_by_location, gather_exc, svc_result, now,
                 events>>
  /\ UNCHANGED <<retryVars, geoVars, apiVars>>

\* lines 102-113: put_object returns the url; the task builds the Event with
\* that url and calls put_event
PutObjectReturns(i) ==
  /\ tasks[i].st = "put_object"
  /\ objects' =
       {o \in objects : o.key # tasks[i].key}
         \cup {[key |-> tasks[i].key, data |-> weather_infos_by_location[i][2]]}
  /\ object_puts' = object_puts + 1
  /\ tasks' =
       [tasks EXCEPT ![i].st = "put_event",
                     ![i].url = UrlOf(tasks[i].key),
                     ![i].event =
                       Event(now, locations[i].name, locations[i].country,
                             locations[i].state, UrlOf(tasks[i].key))]
  /\ UNCHANGED <<req, factory, spc, locations, fetch,
                 weather_infos_by_location, gather_exc, svc_result, now,
                 events>>
  /\ UNCHANGED <<retryVars, geoVars, apiVars>>

\* line 102: put_object raises; the task ends with the error, which gather
\* takes as its own if it is the first
PutObjectRaises(i) ==
  /\ tasks[i].st = "put_object"
  /\ tasks' = [tasks EXCEPT ![i].st = "failed", ![i].err = DataStoreError(i)]
  /\ gather_exc' =
       IF gather_exc = NoneValue THEN DataStoreError(i) ELSE gather_exc
  /\ UNCHANGED <<req, factory, spc, locations, fetch,
                 weather_infos_by_location, svc_result, now, objects,
                 object_puts, events>>
  /\ UNCHANGED <<retryVars, geoVars, apiVars>>

\* lines 106-114: put_event returns and the task ends
PutEventReturns(i) ==
  /\ tasks[i].st = "put_event"
  /\ events' = Append(events, tasks[i].event)
  /\ tasks' = [tasks EXCEPT ![i].st = "done"]
  /\ UNCHANGED <<req, factory, spc, locations, fetch,
                 weather_infos_by_location, gather_exc, svc_result, now,
                 objects, object_puts>>
  /\ UNCHANGED <<retryVars, geoVars, apiVars>>

\* line 106: put_event raises
PutEventRaises(i) ==
  /\ tasks[i].st = "put_event"
  /\ tasks' = [tasks EXCEPT ![i].st = "failed", ![i].err = EventStoreError(i)]
  /\ gather_exc' =
       IF gather_exc = NoneValue THEN EventStoreError(i) ELSE gather_exc
  /\ UNCHANGED <<req, factory, spc, locations, fetch,
                 weather_infos_by_location, svc_result, now, objects,
                 object_puts, events>>
  /\ UNCHANGED <<retryVars, geoVars, apiVars>>

GatherReturns_Reversed ==
  /\ spc = "gather"
  /\ \A i \in 1..Len(tasks) : tasks[i].st = "done"
  /\ spc' = "returned"
  /\ svc_result' =
       [i \in 1..Len(weather_infos_by_location) |->
          weather_infos_by_location[Len(weather_infos_by_location) + 1 - i]]
  /\ UNCHANGED <<req, factory, locations, fetch, weather_infos_by_location,
                 tasks, gather_exc, now, objects, object_puts, events>>
  /\ UNCHANGED <<retryVars, geoVars, apiVars>>

\* lines 59-66: every task has ended without an exception
GatherReturns ==
  /\ spc = "gather"
  /\ \A i \in 1..Len(tasks) : tasks[i].st = "done"
  /\ spc' = "returned"
  /\ svc_result' = weather_infos_by_location
  /\ UNCHANGED <<req, factory, locations, fetch, weather_infos_by_location,
                 tasks, gather_exc, now, objects, object_puts, events>>
  /\ UNCHANGED <<retryVars, geoVars, apiVars>>

GatherRaises_Suppressed ==
  /\ spc = "gather"
  /\ gather_exc # NoneValue
  /\ \A i \in 1..Len(tasks) : tasks[i].st # "new"
  /\ spc' = "returned"
  /\ svc_result' = weather_infos_by_location
  /\ UNCHANGED <<req, factory, locations, fetch, weather_infos_by_location,
                 tasks, gather_exc, now, objects, object_puts, events>>
  /\ UNCHANGED <<retryVars, geoVars, apiVars>>

\* line 59: gather (return_exceptions=False) raises the first exception of a
\* task to the awaiting service; the other tasks are not cancelled. Every task
\* was scheduled by gather and has run up to its first await (put_object)
\* before the service is resumed
GatherRaises ==
  /\ spc = "gather"
  /\ gather_exc # NoneValue
  /\ \A i \in 1..Len(tasks) : tasks[i].st # "new"
  /\ spc' = "raised"
  /\ svc_result' = <<gather_exc>>
  /\ UNCHANGED <<req, factory, locations, fetch, weather_infos_by_location,
                 tasks, gather_exc, now, objects, object_puts, events>>
  /\ UNCHANGED <<retryVars, geoVars, apiVars>>

\* a second passes while tasks of the request are running
Tick ==
  /\ TasksRunning
  /\ now < MaxClock
  /\ now' = now + 1
  /\ UNCHANGED <<req, factory, spc, locations, fetch,
                 weather_infos_by_location, tasks, gather_exc, svc_result,
                 objects, object_puts, events>>
  /\ UNCHANGED <<retryVars, geoVars, apiVars>>

(***************************************************************************)
(* WeatherService.get_weather_forecast_by_city                             *)
(***************************************************************************)
AttributeError == [type |-> "AttributeError", status_code |-> 0]

CityNotFoundException == [type |-> "CityNotFoundException", status_code |-> 404]

\* the days argument of the forecast method when the caller gives none
DefaultDays == 3

\* whether the provider factory.provider() returns has a get_weather_forecast
\* method: OpenWeatherMapProvider defines none
HasForecastMethod(f) == f # "OpenWeatherMapProviderFactory"

\* the forecast the weather API reports for the coordinates of a location
ForecastAt(location, days) ==
  [d \in 1..days |-> [date |-> d, weather |-> WeatherAt(location)]]

\* lines 76-82: the arguments are normalised and the resolver is called
ForecastStart ==
  /\ spc = "start"
  /\ method = "get_weather_forecast_by_city"
  /\ geo_args' =
       [city |-> strip(lower(req.city_name)),
        country_code |->
          IF Truthy(req.country_code) THEN strip(lower(req.country_code))
          ELSE None,
        state |-> IF Truthy(req.state) THEN strip(lower(req.state)) ELSE None]
  /\ gpc' = "call"
  /\ spc' = "resolving"
  /\ UNCHANGED <<geo_answer, geo_gets, geo_result>>
  /\ UNCHANGED <<req, factory, locations, fetch, weather_infos_by_location,
                 tasks, gather_exc, svc_result, now, objects, object_puts,
                 events>>
  /\ UNCHANGED <<retryVars, apiVars>>

ForecastResolved_RaisesOnEmpty ==
  /\ spc = "resolving"
  /\ method = "get_weather_forecast_by_city"
  /\ gpc = "returned"
  /\ locations' = geo_result
  /\ IF Len(geo_result) = 0
     THEN /\ spc' = "raised"
          /\ svc_result' = <<CityNotFoundException>>
          /\ fetch' = fetch
     ELSE /\ spc' = "forecasting"
          /\ svc_result' = svc_result
          /\ fetch' = [i \in 1..Len(geo_result) |->
                         [st |-> "idle", err |-> NoneValue]]
  /\ UNCHANGED <<req, factory, weather_infos_by_location, tasks, gather_exc,
                 now, objects, object_puts, events>>
  /\ UNCHANGED <<retryVars, geoVars, apiVars>>

\* lines 80-87: the resolver returned
ForecastResolved ==
  /\ spc = "resolving"
  /\ method = "get_weather_forecast_by_city"
  /\ gpc = "returned"
  /\ locations' = geo_result
  /\ IF Len(geo_result) = 0
     THEN /\ spc' = "returned"
          /\ svc_result' = <<>>
          /\ fetch' = fetch
     ELSE /\ spc' = "forecasting"
          /\ svc_result' = svc_result
          /\ fetch' = [i \in 1..Len(geo_result) |->
                         [st |-> "idle", err |-> NoneValue]]
  /\ UNCHANGED <<req, factory, weather_infos_by_location, tasks, gather_exc,
                 now, objects, object_puts, events>>
  /\ UNCHANGED <<retryVars, geoVars, apiVars>>

\* line 80: the resolver raised; the method does not catch it
ForecastResolveRaised ==
  /\ spc = "resolving"
  /\ method = "get_weather_forecast_by_city"
  /\ gpc = "raised"
  /\ spc' = "raised"
  /\ svc_result' = geo_result
  /\ UNCHANGED <<req, factory, locations, fetch, weather_infos_by_location,
                 tasks, gather_exc, now, objects, object_puts, events>>
  /\ UNCHANGED <<retryVars, geoVars, apiVars>>

\* line 91 with an OpenWeatherMapProvider: the provider has no
\* get_weather_forecast attribute, so the lookup raises before any request
ForecastWithoutMethod ==
  /\ spc = "forecasting"
  /\ fetch[NextFetch].st = "idle"
  /\ ~HasForecastMethod(factory)
  /\ fetch' = [fetch EXCEPT ![NextFetch] = [st |-> "failed", err |-> AttributeError]]
  /\ spc' = "raised"
  /\ svc_result' = <<AttributeError>>
  /\ UNCHANGED <<req, factory, locations, weather_infos_by_location, tasks,
                 gather_exc, now, objects, object_puts, events>>
  /\ UNCHANGED <<retryVars, geoVars, apiVars>>

\* lines 90-94: the provider sends the forecast request for the next location
ForecastFetchStart ==
  /\ spc = "forecasting"
  /\ fetch[NextFetch].st = "idle"
  /\ HasForecastMethod(factory)
  /\ fetch' = [fetch EXCEPT ![NextFetch].st = "inflight"]
  /\ UNCHANGED <<req, factory, spc, locations, weather_infos_by_location,
                 tasks, gather_exc, svc_result, now, objects, object_puts,
                 events>>
  /\ UNCHANGED <<retryVars, geoVars, apiVars>>

ForecastFetchReturns_Stores ==
  /\ spc = "forecasting"
  /\ fetch[NextFetch].st = "inflight"
  /\ fetch' = [fetch EXCEPT ![NextFetch].st = "done"]
  /\ weather_infos_by_location' =
       Append(weather_infos_by_location,
              <<locations[NextFetch],
                ForecastAt(locations[NextFetch], DefaultDays)>>)
  /\ IF NextFetch = Len(locations)
     THEN /\ spc' = "gather"
          /\ tasks' = [i \in 1..Len(locations) |-> NewTask]
          /\ svc_result' = svc_result
     ELSE /\ spc' = "forecasting"
          /\ tasks' = tasks
          /\ svc_result' = svc_result
  /\ UNCHANGED <<req, factory, locations, gather_exc, now, objects,
                 object_puts, events>>
  /\ UNCHANGED <<retryVars, geoVars, apiVars>>

\* lines 89-97: the forecast returns and the pair is appended; after the last
\* location the list is returned
ForecastFetchReturns ==
  /\ spc = "forecasting"
  /\ fetch[NextFetch].st = "inflight"
  /\ fetch' = [fetch EXCEPT ![NextFetch].st = "done"]
  /\ weather_infos_by_location' =
       Append(weather_infos_by_location,
              <<locations[NextFetch],
                ForecastAt(locations[NextFetch], DefaultDays)>>)
  /\ IF NextFetch = Len(locations)
     THEN /\ spc' = "returned"
          /\ svc_result' = weather_infos_by_location'
     ELSE /\ spc' = "forecasting"
          /\ svc_result' = svc_result
  /\ UNCHANGED <<req, factory, locations, tasks, gather_exc, now, objects,
                 object_puts, events>>
  /\ UNCHANGED <<retryVars, geoVars, apiVars>>

\* line 91: the forecast request raises; the method does not catch it
ForecastFetchRaises ==
  /\ spc = "forecasting"
  /\ fetch[NextFetch].st = "inflight"
  /\ \E e \in FetchErrors :
       /\ fetch' = [fetch EXCEPT ![NextFetch] = [st |-> "failed", err |-> e]]
       /\ svc_result' = <<e>>
  /\ spc' = "raised"
  /\ UNCHANGED <<req, factory, locations, weather_infos_by_location, tasks,
                 gather_exc, now, objects, object_puts, events>>
  /\ UNCHANGED <<retryVars, geoVars, apiVars>>

(***************************************************************************)
(* api/weather.py, api/app.py: the request layer                           *)
(***************************************************************************)
\* fastapi.HTTPException(status_code=...), as the response it is turned into
HTTPException(status) == [status_code |-> status, body |-> <<>>]

\* the response of a handler that returns a list
OkResponse(body) == [status_code |-> 200, body |-> body]

\* the subclasses of BaseServiceException
ServiceExceptionTypes ==
  {"ThirdPartyProviderUnavailable", "ThirdPartyProviderError",
   "InvalidProviderResponse", "CityNotFoundException",
   "AmbiguousLocationException"}

\* app.py handle_service_layer_exception answers a BaseServiceException with
\* its status code; any other exception becomes the framework's 500
ExceptionResponse(exc) ==
  IF exc.type \in ServiceExceptionTypes THEN HTTPException(exc.status_code)
  ELSE HTTPException(500)

CityModel(location) ==
  [name |-> location.name, country_code |-> location.country,
   state |-> location.state]

\* `x or y` for an Optional[float] x: None and 0 are both falsy
FloatOr(x, y) == IF x = NoFloat \/ x = <<0>> THEN y ELSE x[1]

\* lines 169-177, 330-339: feels_like=feels_like or temperature
CurrentWeatherModel(weather) ==
  [temperature |-> weather.temperature,
   feels_like |-> FloatOr(weather.feels_like, weather.temperature)]

\* get_weather lines 161-181
CityCurrentWeatherResponse(x) ==
  [city |-> CityModel(x[1]), weather |-> CurrentWeatherModel(x[2])]

\* get_weather_forecast_by_city lines 319-346
CityWeatherForecastResponse(x) ==
  [city |-> CityModel(x[1]),
   forecast |->
     [i \in 1..Len(x[2]) |->
        [date |-> x[2][i].date,
         weather |-> CurrentWeatherModel(x[2][i].weather)]]]

\* get_weather lines 151-183: the service returned
GetWeatherResponds ==
  /\ method = "get_weather_by_city"
  /\ spc = "returned"
  /\ response = NoResponse
  /\ response' =
       IF svc_result = <<>> THEN HTTPException(404)
       ELSE OkResponse([i \in 1..Len(svc_result) |->
                          CityCurrentWeatherResponse(svc_result[i])])
  /\ UNCHANGED <<method, requests>>
  /\ UNCHANGED <<req, factory, spc, locations, fetch,
                 weather_infos_by_location, tasks, gather_exc, svc_result,
                 now, objects, object_puts, events>>
  /\ UNCHANGED <<retryVars, geoVars>>

GetForecastResponds_EmptyOk ==
  /\ method = "get_weather_forecast_by_city"
  /\ spc = "returned"
  /\ response = NoResponse
  /\ response' =
       OkResponse([i \in 1..Len(svc_result) |->
                     CityWeatherForecastResponse(svc_result[i])])
  /\ UNCHANGED <<method, requests>>
  /\ UNCHANGED <<req, factory, spc, locations, fetch,
                 weather_infos_by_location, tasks, gather_exc, svc_result,
                 now, objects, object_puts, events>>
  /\ UNCHANGED <<retryVars, geoVars>>

\* get_weather_forecast_by_city lines 310-348: the service returned
GetForecastResponds ==
  /\ method = "get_weather_forecast_by_city"
  /\ spc = "returned"
  /\ response = NoResponse
  /\ response' =
       IF svc_result = <<>> THEN HTTPException(404)
       ELSE OkResponse([i \in 1..Len(svc_result) |->
                          CityWeatherForecastResponse(svc_result[i])])
  /\ UNCHANGED <<method, requests>>
  /\ UNCHANGED <<req, factory, spc, locations, fetch,
                 weather_infos_by_location, tasks, gather_exc, svc_result,
                 now, objects, object_puts, events>>
  /\ UNCHANGED <<retryVars, geoVars>>

\* the service raised: neither handler catches, the application answers
HandleException ==
  /\ spc = "raised"
  /\ response = NoResponse
  /\ response' = ExceptionResponse(svc_result[1])
  /\ UNCHANGED <<method, requests>>
  /\ UNCHANGED <<req, factory, spc, locations, fetch,
                 weather_infos_by_location, tasks, gather_exc, svc_result,
                 now, objects, object_puts, events>>
  /\ UNCHANGED <<retryVars, geoVars>>

\* the forecast endpoint is requested again with the same parameters, after
\* the previous request has been answered
NewForecastRequest ==
  /\ method = "get_weather_forecast_by_city"
  /\ response # NoResponse
  /\ requests < MaxRequests
  /\ requests' = requests + 1
  /\ response' = NoResponse
  /\ spc' = "start"
  /\ locations' = <<>>
  /\ fetch' = <<>>
  /\ weather_infos_by_location' = <<>>
  /\ svc_result' = <<>>
  /\ gpc' = "off"
  /\ geo_result' = <<>>
  /\ UNCHANGED <<geo_args, geo_answer, geo_gets>>
  /\ UNCHANGED <<req, factory, tasks, gather_exc, now, objects, object_puts,
                 events, method>>
  /\ UNCHANGED retryVars

PutObjectCallStep == \E i \in 1..Len(tasks) : PutObjectCall(i)

PutObjectReturnsStep == \E i \in 1..Len(tasks) : PutObjectReturns(i)

PutObjectRaisesStep == \E i \in 1..Len(tasks) : PutObjectRaises(i)

PutEventReturnsStep == \E i \in 1..Len(tasks) : PutEventReturns(i)

PutEventRaisesStep == \E i \in 1..Len(tasks) : PutEventRaises(i)

Next ==
  \/ ServiceStart
  \/ GeoGet
  \/ GeoAnswerOk
  \/ GeoAnswerError
  \/ ServiceResolved
  \/ ServiceResolveRaised
  \/ FetchWithoutClient
  \/ FetchStart
  \/ FetchReturns
  \/ FetchRaises
  \/ PutObjectCallStep
  \/ PutObjectReturnsStep
  \/ PutObjectRaisesStep
  \/ PutEventReturnsStep
  \/ PutEventRaisesStep
  \/ GatherReturns
  \/ GatherRaises
  \/ Tick
  \/ ForecastStart
  \/ ForecastResolved
  \/ ForecastResolveRaised
  \/ ForecastWithoutMethod
  \/ ForecastFetchStart
  \/ ForecastFetchReturns
  \/ ForecastFetchRaises
  \/ GetWeatherResponds
  \/ GetForecastResponds
  \/ HandleException
  \/ NewForecastRequest

Spec == Init /\ [][Next]_vars

(***************************************************************************)
(* Properties of with_retry (checked under SpecRetry)                      *)
(***************************************************************************)
\* the wrapped operation fails with an error the retry module classifies as
\* retriable on its first n invocations and succeeds on invocation n + 1
FailsThenSucceeds(n) ==
  /\ n + 1 <= Len(script)
  /\ \A i \in 1..n : script[i] \in Errors /\ is_retriable_error(script[i])
  /\ script[n + 1] = Success

\* the wrapped operation fails retriably on every invocation
AlwaysFailsRetriably ==
  \A i \in 1..Len(script) : script[i] \in Errors /\ is_retriable_error(script[i])

\* invocation m is the first that raises an error classified as not retriable
FatalAt(m) ==
  /\ m <= Len(script)
  /\ \A i \in 1..(m - 1) : script[i] \in Errors /\ is_retriable_error(script[i])
  /\ script[m] \in Errors
  /\ ~is_retriable_error(script[m])

\* C1: for max_retries = k and n <= k, an operation that fails retriably n
\* times and then succeeds makes the call return the value of invocation n + 1
\* after exactly n + 1 invocations: the call never raises, never invokes the
\* operation an (n + 2)-th time, and once the (n + 1)-th invocation has been
\* made the call has returned.
C1_ReturnsAfterRetries ==
  \A n \in 0..config.max_retries :
    FailsThenSucceeds(n) =>
      /\ rpc # "raised"
      /\ call_count <= n + 1
      /\ (call_count = n + 1 => rpc = "returned")
      /\ (rpc = "returned" =>
            /\ result = SuccessValue(n + 1)
            /\ call_count = n + 1)

\* the call returned on its last permitted attempt after at least one retry
C1_Witness ==
  /\ rpc = "returned"
  /\ config.max_retries >= 1
  /\ call_count = config.max_retries + 1
  /\ FailsThenSucceeds(config.max_retries)

\* C2: for max_retries = k (k = 0 included), an operation that fails retriably
\* on every invocation is invoked exactly k + 1 times and the call then raises
\* ThirdPartyProviderUnavailable carrying the provider name and the error of
\* invocation k + 1.
C2_ExhaustionRaisesUnavailable ==
  AlwaysFailsRetriably =>
    /\ rpc # "returned"
    /\ call_count <= config.max_retries + 1
    /\ (call_count = config.max_retries + 1 => rpc = "raised")
    /\ (rpc = "raised" =>
          /\ call_count = config.max_retries + 1
          /\ result = ThirdPartyProviderUnavailable(
                        provider_name, script[config.max_retries + 1]))

\* retries exhausted with a last error that differs from the first one
C2_Witness ==
  /\ AlwaysFailsRetriably
  /\ rpc = "raised"
  /\ config.max_retries >= 1
  /\ call_count = config.max_retries + 1
  /\ script[call_count] # script[1]
  /\ result.type = "ThirdPartyProviderUnavailable"

\* the call raised with max_retries = 0
C2_WitnessZero ==
  AlwaysFailsRetriably /\ rpc = "raised" /\ config.max_retries = 0

\* C3: an error classified as not retriable, raised on attempt m (the first, or
\* one following retriable failures), ends the call at once: the operation is
\* not invoked again, no sleep follows it, and the caller gets that same error,
\* not a ThirdPartyProviderUnavailable.
C3_FatalEndsImmediately ==
  \A m \in 1..Len(script) :
    FatalAt(m) =>
      /\ rpc # "returned"
      /\ call_count <= m
      /\ Len(sleeps) <= m - 1
      /\ (call_count = m => rpc = "raised")
      /\ (rpc = "raised" =>
            /\ result = script[m]
            /\ result.type # "ThirdPartyProviderUnavailable"
            /\ call_count = m
            /\ Len(sleeps) = m - 1)

\* a fatal error raised after an earlier retriable failure
C3_Witness ==
  /\ rpc = "raised"
  /\ call_count >= 2
  /\ FatalAt(call_count)
  /\ result = script[call_count]

\* the wrapper handled the error of invocation call_count as retriable: it went
\* on to sleep, or it gave up with ThirdPartyProviderUnavailable
TreatedAsRetriable ==
  \/ rpc = "sleep"
  \/ rpc = "raised" /\ result.type = "ThirdPartyProviderUnavailable"

\* C4: an HTTP status error with status s is treated as retriable if and only
\* if s is a member of config.retriable_status_codes.
C4_RetriableIffInConfig ==
  (/\ rpc \in {"sleep", "raised"}
   /\ script[call_count].type = "HTTPStatusError") =>
     (TreatedAsRetriable <=>
        script[call_count].status_code \in config.retriable_status_codes)

(***************************************************************************)
(* Properties of get_weather_by_city (checked under Spec)                  *)
(***************************************************************************)
\* a put_object or put_event call of the request has been issued
SomeWriteIssued ==
  \/ \E i \in 1..Len(tasks) : tasks[i].st # "new"
  \/ objects # {}
  \/ object_puts # 0
  \/ events # <<>>

AllFetchesDone ==
  /\ Len(fetch) = Len(locations)
  /\ Len(locations) > 0
  /\ \A j \in 1..Len(fetch) : fetch[j].st = "done"

\* C5: with N >= 2 resolved locations the fetches are issued concurrently: the
\* fetch of a later location does not wait for the fetch of an earlier one, so
\* by the time the fetch of location i has completed the fetch of every later
\* location j has been started.
C5_FetchesIssuedConcurrently ==
  \A i \in 1..Len(fetch) : \A j \in 1..Len(fetch) :
    (i < j /\ fetch[i].st = "done") => fetch[j].st # "idle"

\* C6: no put_object and no put_event is issued before the fetch of every
\* resolved location has completed successfully; if the fetch of one location
\* fails the call raises that error, returns nothing, and no store is written.
C6_NoWriteUntilAllFetched ==
  /\ SomeWriteIssued => AllFetchesDone
  /\ \A j \in 1..Len(fetch) :
       fetch[j].st = "failed" =>
         /\ spc = "raised"
         /\ svc_result = <<fetch[j].err>>
         /\ ~SomeWriteIssued
         /\ tasks = <<>>

\* the fetch of the second location failed after the first had succeeded
C6_Witness ==
  /\ Len(fetch) >= 2
  /\ fetch[1].st = "done"
  /\ fetch[2].st = "failed"
  /\ fetch[2].err \in FetchErrors
  /\ spc = "raised"

\* C7: for each location put_event is issued only after that location's
\* put_object has completed and returned a url; the Event carries that url and
\* the location's name, country and state; in every interleaving of the tasks
\* every event written has the url a completed put_object of the same location
\* returned.
C7_EventAfterObject ==
  /\ \A i \in 1..Len(tasks) :
       /\ tasks[i].st \in {"new", "put_object"} => tasks[i].event = NoEvent
       /\ tasks[i].event # NoEvent =>
            /\ tasks[i].url # NoKey
            /\ tasks[i].url = UrlOf(tasks[i].key)
            /\ \E o \in objects : o.key = tasks[i].key
            /\ tasks[i].event.url = tasks[i].url
            /\ tasks[i].event.city = locations[i].name
            /\ tasks[i].event.country_code = locations[i].country
            /\ tasks[i].event.state = locations[i].state
  /\ \A k \in 1..Len(events) :
       \E i \in 1..Len(tasks) :
         /\ tasks[i].st = "done"
         /\ tasks[i].event = events[k]
         /\ tasks[i].url = events[k].url

\* an event of one location is written while the put_object of another
\* location is still in flight, a second after its own object name was formed
C7_Witness ==
  /\ Len(events) >= 1
  /\ \E i \in 1..Len(tasks) : tasks[i].st = "put_object"
  /\ \E i \in 1..Len(tasks) :
       /\ tasks[i].st = "done"
       /\ tasks[i].event.timestamp # tasks[i].key[4]

SomeTaskFailed == \E i \in 1..Len(tasks) : tasks[i].st = "failed"

\* C8: if put_object or put_event fails for a location, the call raises that
\* error, untranslated, and returns no list, although every fetch succeeded.
C8_PersistenceErrorPropagates ==
  /\ SomeTaskFailed =>
       /\ AllFetchesDone
       /\ spc \in {"gather", "raised"}
       /\ gather_exc # NoneValue
  /\ (spc = "raised" /\ tasks # <<>>) =>
       /\ svc_result = <<gather_exc>>
       /\ \E i \in 1..Len(tasks) :
            /\ tasks[i].st = "failed"
            /\ svc_result = <<tasks[i].err>>
            /\ tasks[i].err \in {DataStoreError(i), EventStoreError(i)}

\* the call raised the put_event error of the second location
C8_Witness ==
  /\ spc = "raised"
  /\ AllFetchesDone
  /\ Len(tasks) >= 2
  /\ svc_result = <<EventStoreError(2)>>

\* scenario A: the service uses the provider of the repository's factory, the
\* geocoder answers one candidate whose name is the query city, and neither the
\* weather API nor a store has failed
ScenarioA ==
  /\ factory = "OpenWeatherMapProviderFactory"
  /\ geo_answer.status_code = 200
  /\ Len(geo_answer.body) = 1
  /\ geo_answer.body[1].name = req.city_name
  /\ \A j \in 1..Len(fetch) : fetch[j].err \notin FetchErrors
  /\ ~SomeTaskFailed

\* C9: in scenario A the call completes successfully with a one-element
\* result after exactly one weather fetch, one put_object and one put_event
\* whose url is the value put_object returned.
C9_ScenarioASucceeds ==
  ScenarioA =>
    /\ spc # "raised"
    /\ spc = "returned" =>
         /\ Len(svc_result) = 1
         /\ Len(fetch) = 1
         /\ fetch[1].st = "done"
         /\ object_puts = 1
         /\ Len(events) = 1
         /\ events[1].url = tasks[1].url

(***************************************************************************)
(* Properties of resolve_locations (checked under SpecGeo)                 *)
(***************************************************************************)
\* the candidates of the geocoder's answer whose name equals the city argument
\* ignoring case (name.casefold() == city.casefold()), in answer order
ExactNameCandidates ==
  SelectSeqBy(geo_answer.body,
              {l \in Range(geo_answer.body) :
                 casefold(l.name) = casefold(geo_args.city)})

\* C10: every Location resolve_locations returns has a name equal to the city
\* argument ignoring case, and a candidate whose name equals the city ignoring
\* case is dropped only by the state disambiguation, which runs only when more
\* than one exact-name match exists.
C10_ExactNameFilter ==
  gpc = "returned" =>
    /\ \A l \in Range(geo_result) :
         casefold(l.name) = casefold(geo_args.city)
    /\ \A l \in Range(ExactNameCandidates) :
         l \notin Range(geo_result) =>
           /\ Len(ExactNameCandidates) > 1
           /\ ~StateMatches(l, geo_args.state)

\* a state is absent when it is None or empty
StateAbsent(state) == ~Truthy(state)

\* two states are equal ignoring case; two absent states count as equal
SameStateIgnoringCase(a, b) ==
  IF StateAbsent(a) \/ StateAbsent(b) THEN StateAbsent(a) /\ StateAbsent(b)
  ELSE casefold(a) = casefold(b)

\* the candidates of the answer that pass the exact-name filter, in answer order
NamedCandidates == exact_name_filter(geo_answer.body, geo_args.city)

ScenarioB ==
  /\ Len(geo_answer.body) = 2
  /\ \A i \in 1..2 : geo_answer.body[i].name = geo_args.city
  /\ \A i \in 1..2 : Truthy(geo_answer.body[i].state)
  /\ geo_answer.body[1].state # geo_answer.body[2].state
  /\ geo_args.state = None

\* C12: in scenario B resolve_locations returns both candidates.
C12_ScenarioBReturnsBoth ==
  (gpc = "returned" /\ ScenarioB) => geo_result = geo_answer.body

(***************************************************************************)
(* Properties of the service methods and the request layer (checked under  *)
(* Spec)                                                                   *)
(***************************************************************************)
\* C13: whenever a weather request supplies a state and the response lists
\* cities, every listed city has a state equal to the supplied state ignoring
\* case, also when exactly one candidate passed the exact-name filter.
C13_StateArgumentHonoured ==
  (method = "get_weather_by_city" /\ response.status_code = 200
     /\ Truthy(req.state)) =>
    \A i \in 1..Len(response.body) :
      SameStateIgnoringCase(response.body[i].city.state, req.state)

\* C14: when resolution yields zero locations, both service methods return an
\* empty list without raising, and no weather fetch, no put_object and no
\* put_event call is made.
C14_EmptyResolutionReturnsEmpty ==
  (spc \notin {"start", "resolving"} /\ gpc = "returned" /\ geo_result = <<>>) =>
    /\ spc = "returned"
    /\ svc_result = <<>>
    /\ fetch = <<>>
    /\ weather_infos_by_location = <<>>
    /\ tasks = <<>>
    /\ objects = {}
    /\ object_puts = 0
    /\ events = <<>>

\* the geocoder answered candidates, none of which resolution kept, and the
\* forecast method has returned
C14_Witness ==
  /\ method = "get_weather_forecast_by_city"
  /\ spc = "returned"
  /\ gpc = "returned"
  /\ geo_answer.body # <<>>
  /\ geo_result = <<>>
  /\ svc_result = <<>>

\* C15: the request layer answers 404 whenever the service returns an empty
\* result, for /weather and for /weather-forecast, and never answers 200 with
\* an empty list.
C15_EmptyResultIs404 ==
  /\ (response # NoResponse /\ spc = "returned" /\ svc_result = <<>>) =>
       response.status_code = 404
  /\ response.status_code = 200 => response.body # <<>>

C15_Witness ==
  /\ method = "get_weather_forecast_by_city"
  /\ spc = "returned"
  /\ svc_result = <<>>
  /\ response = HTTPException(404)

\* C16: when resolution leaves more than one location, the response of the
\* weather request is a 400 disambiguation error, not a list of several cities.
C16_AmbiguousIs400 ==
  (method = "get_weather_by_city" /\ spc = "returned" /\ Len(locations) > 1
     /\ response # NoResponse) =>
    response.status_code = 400

\* C17: on success get_weather_by_city returns one (Location, WeatherData)
\* pair per resolved location, in resolution order, each pair holding the
\* weather fetched for its own location.
C17_PairsInResolutionOrder ==
  (method = "get_weather_by_city" /\ spc = "returned") =>
    /\ Len(svc_result) = Len(geo_result)
    /\ \A i \in 1..Len(svc_result) :
         svc_result[i] = <<geo_result[i], WeatherAt(geo_result[i])>>

\* two locations with different weather were returned, and the write of the
\* second pair completed before the write of the first
C17_Witness ==
  /\ method = "get_weather_by_city"
  /\ spc = "returned"
  /\ Len(svc_result) = 2
  /\ svc_result[1][2] # svc_result[2][2]
  /\ Len(events) = 2
  /\ events[1] = tasks[2].event
  /\ events[2] = tasks[1].event
  /\ events[1] # events[2]

\* C18: get_weather_forecast_by_city never calls put_object or put_event: after
\* any sequence of forecast requests the data store and the event store are
\* as they were, and no _store_weather_info task exists.
C18_ForecastNeverWrites ==
  method = "get_weather_forecast_by_city" =>
    /\ tasks = <<>>
    /\ objects = {}
    /\ object_puts = 0
    /\ events = <<>>

\* a second forecast request has been answered with two cities
C18_Witness ==
  /\ method = "get_weather_forecast_by_city"
  /\ requests = 2
  /\ response.status_code = 200
  /\ Len(response.body) = 2
  /\ objects = {}
  /\ events = <<>>

(***************************************************************************)
(* Properties of OpenWeatherApiClient._make_request (checked under         *)
(* SpecClient)                                                             *)
(***************************************************************************)
\* the i-th GET of the call was answered with status s
AnsweredWith(i, s) == i <= call_count /\ script[i] = Response(s)

\* the message of the error the client raises for status s
DomainMessage(s) ==
  IF s = 401 THEN "Invalid API key"
  ELSE IF s = 404 THEN "Location not found"
  ELSE "API rate limit exceeded"

\* C19: when a GET is answered with 401, 404 or 429, the call ends after that
\* GET with a ThirdPartyProviderError of the same status code and the matching
\* message; the error is not retried (no wait, no further GET) and is not
\* wrapped in ThirdPartyProviderUnavailable.
C19_DomainErrorsEndTheCall ==
  \A i \in 1..call_count : \A s \in {401, 404, 429} :
    AnsweredWith(i, s) =>
      /\ rpc = "raised"
      /\ call_count = i
      /\ Len(sleeps) = i - 1
      /\ result = ThirdPartyProviderError(PROVIDER_NAME, DomainMessage(s), s)

\* the first GET is answered with 429 and the call has ended
C19_Witness ==
  /\ AnsweredWith(1, 429)
  /\ rpc = "raised"
  /\ call_count = 1
  /\ sleeps = <<>>
  /\ result.type = "ThirdPartyProviderError"
  /\ result.status_code = 429

\* C20: a 429 answer is retried: on attempt i < max_retries the client waits
\* delay(i) and sends the GET again, and the rate-limit error reaches the
\* caller only when the final attempt is answered with 429.
C20_RateLimitRetried ==
  /\ \A i \in 1..call_count :
       (AnsweredWith(i, 429) /\ i - 1 < config.max_retries) =>
         /\ Len(sleeps) >= i
         /\ sleeps[i] = calculate_delay(i - 1, config)
  /\ (rpc = "raised" /\ result.type = "ThirdPartyProviderError"
        /\ result.status_code = 429) =>
       call_count = config.max_retries + 1

(***************************************************************************)
(* Further properties of resolve_locations (checked under SpecGeo)         *)
(***************************************************************************)
\* the geocoder's answer is a failure the retry policy classifies as retriable
GeoAnswerRetriable ==
  \/ geo_answer.status_code = 0
  \/ geo_answer.status_code \in {500, 502, 503, 504, 408}

\* C22: the geocoding request of resolve_locations goes through the retry
\* policy: a retriable failure is attempted max_retries + 1 times in all, and
\* every failure that leaves resolve_locations is a
\* ThirdPartyProviderUnavailable or a ThirdPartyProviderError.
C22_GeocodingThroughRetryPolicy ==
  gpc = "raised" =>
    /\ geo_result[1].type \in
         {"ThirdPartyProviderUnavailable", "ThirdPartyProviderError"}
    /\ GeoAnswerRetriable =>
         Len(geo_gets) = DefaultRetryConfig.max_retries + 1

(***************************************************************************)
(* Further properties of with_retry (checked under SpecRetry)              *)
(***************************************************************************)
\* delay(i) = min(base_delay * backoff_factor^i, max_delay) of the call's config
Delay(i) ==
  Min(config.base_delay * Pow(config.backoff_factor, i), config.max_delay)

\* delay(0), ..., delay(n - 1)
Waits(n) == [i \in 1..n |-> Delay(i - 1)]

\* C23: the waits of a call are delay(0), delay(1), ... in attempt order, one
\* after each retriably failed attempt that is followed by another attempt:
\* none before the first attempt, and none after the attempt that ends the
\* call (success, fatal error, or the failure that exhausts max_retries).
C23_WaitSequence ==
  /\ rpc \in {"call", "sleep"} => sleeps = Waits(call_count)
  /\ rpc \in {"returned", "raised"} => sleeps = Waits(call_count - 1)

\* a call of three attempts has ended; its second wait was capped by max_delay
C23_Witness ==
  /\ rpc = "raised"
  /\ call_count = 3
  /\ config.max_delay = 3
  /\ sleeps = <<2, 3>>

(***************************************************************************)
(* Further properties of the service methods and the request layer         *)
(* (checked under Spec)                                                    *)
(***************************************************************************)
\* C26: no storage key is passed to put_object twice and no two events carry
\* the same url, in particular for two resolved locations that share name,
\* country and state and differ in their coordinates.
C26_NoStorageKeyReused ==
  /\ \A i, j \in 1..Len(tasks) :
       (i # j /\ locations[i] # locations[j]
          /\ tasks[i].key # NoKey /\ tasks[j].key # NoKey) =>
         tasks[i].key # tasks[j].key
  /\ \A k, l \in 1..Len(events) :
       k # l => events[k].url # events[l].url

\* C27: once get_weather_by_city has raised because a persistence task
\* failed, no put_object or put_event of that request starts or completes: no
\* task changes and the stores receive no write.
C27_NoWriteAfterFailure ==
  [][(spc = "raised" /\ gather_exc # NoneValue) =>
       /\ tasks' = tasks
       /\ objects' = objects
       /\ object_puts' = object_puts
       /\ events' = events]_vars

\* C30: the feels_like of every city of a 200 response equals the provider's
\* feels_like whenever the provider's answer has one, zero included; the
\* temperature stands in only when the provider's answer has none.
C30_FeelsLikePreserved ==
  response.status_code = 200 =>
    \A i \in 1..Len(response.body) :
      IF method = "get_weather_by_city"
      THEN LET w == WeatherAt(locations[i]) IN
             response.body[i].weather.feels_like =
               IF w.feels_like = NoFloat THEN w.temperature
               ELSE w.feels_like[1]
      ELSE \A d \in 1..Len(response.body[i].forecast) :
             LET w == ForecastAt(locations[i], DefaultDays)[d].weather IN
               response.body[i].forecast[d].weather.feels_like =
                 IF w.feels_like = NoFloat THEN w.temperature
                 ELSE w.feels_like[1]

(***************************************************************************)
(* Further properties of OpenWeatherApiClient (checked under SpecClient)   *)
(***************************************************************************)
\* the i-th GET of the call was answered with status 200 and a body that is
\* not JSON or has an unexpected shape
BadBodyAt(i) ==
  i <= call_count /\ script[i] \in {MalformedResponse, UnexpectedResponse}

\* C21: when a GET is answered with a successful status and a malformed or
\* unexpectedly shaped body, the client method fails with
\* InvalidProviderResponse and that GET is the call's last one.
C21_ParseFailureIsInvalidResponse ==
  \A i \in 1..call_count :
    BadBodyAt(i) =>
      /\ call_count = i
      /\ rpc \in {"returned", "raised"}
      /\ client_result # NoneValue => client_result = InvalidProviderResponse

\* C28: a call of a client built with retry_config.max_retries = k sends at
\* most k + 1 GETs and waits that config's delays.
C28_ClientConfigGoverns ==
  /\ call_count <= retry_config.max_retries + 1
  /\ \A i \in 1..Len(sleeps) : sleeps[i] = calculate_delay(i - 1, retry_config)

(***************************************************************************)
(* Properties of RetryConfig and calculate_delay (checked under SpecConfig)*)
(***************************************************************************)
\* C24: for base_delay >= 0, backoff_factor >= 1 and max_delay > 0,
\* calculate_delay(i) is non-decreasing in i and never exceeds max_delay; for
\* base_delay 1, backoff_factor 2, max_delay 10 the delays of i = 0..4 are
\* 1, 2, 4, 8, 10; for base_delay 0 every delay is 0.
C24_DelayMonotoneAndCapped ==
  /\ \A i \in 1..Len(delays) : delays[i] <= config_args.max_delay
  /\ \A i \in 1..(Len(delays) - 1) : delays[i] <= delays[i + 1]
  /\ (config_args.base_delay = 1 /\ config_args.backoff_factor = 2
        /\ config_args.max_delay = 10) =>
       \A i \in 1..Len(delays) : i <= 5 => delays[i] = <<1, 2, 4, 8, 10>>[i]
  /\ config_args.base_delay = 0 => \A i \in 1..Len(delays) : delays[i] = 0

\* the delays of attempts 0..4 have been computed for the example config
C24_Witness ==
  /\ config_args.base_delay = 1
  /\ config_args.backoff_factor = 2
  /\ config_args.max_delay = 10
  /\ Len(delays) >= 5
  /\ delays[4] = 8
  /\ delays[5] = 10

\* C29: a constructed RetryConfig holds the retriable_status_codes set it was
\* given, the empty set included; only for None does it hold the default set.
C29_StoresGivenCodes ==
  config # NoneValue =>
    config.retriable_status_codes =
      IF config_args.codes = NoCodes THEN {500, 502, 503, 504, 429, 408}
      ELSE config_args.codes

(***************************************************************************)
(* Termination of with_retry (checked under SpecRetryFair)                 *)
(***************************************************************************)
\* the wrapper has returned or raised
Terminated == rpc \in {"returned", "raised"}

\* C25: for every max_retries >= 0 and every behaviour of the wrapped operation
\* whose invocations all terminate, a with_retry call eventually returns or
\* raises, having invoked the operation at least once and at most
\* max_retries + 1 times.
C25_EventuallyTerminates ==
  /\ [](call_count <= config.max_retries + 1)
  /\ <>(Terminated /\ call_count >= 1 /\ call_count <= config.max_retries + 1)

\* the call ended after the greatest number of invocations of the model, each
\* retry having waited
C25_Witness ==
  /\ Terminated
  /\ config.max_retries = MaxRetries
  /\ call_count = MaxRetries + 1
  /\ Len(sleeps) = MaxRetries

====
